---- MODULE Spec2Model ----
(***************************************************************************)
(* brainstorm/construction.py: ConstructionLayer and ConstructionInjector. *)
(*                                                                         *)
(* Layers are wired with  a >> b  (ConstructionLayer.__rshift__), which    *)
(* appends to the two adjacency lists and then validates acyclicity with   *)
(* the generator traverse_sink_layer_tree and its per-layer `traversing`   *)
(* flag.  Injectors are wired with  layer << inj  (__rlshift__) and        *)
(* layer >> inj  (__rrshift__).  `size` is the size-inference property.    *)
(*                                                                         *)
(* Layers are 1..NumLayers, injectors are 1..NumInjectors; a reference     *)
(* that is Python's None is 0 (None), a _size that is None is NoSize.      *)
(***************************************************************************)
EXTENDS Integers, Sequences, FiniteSets, TLC

\* ------------------------------------------------------------- bounds
NumLayers == 3
NumInjectors == 1
\* Calls of >> in one run (every call installs its edge, also a failing one).
MaxEdges == 3
\* The same, in the runs that ask for sizes.
MaxSizeEdges == 2
\* Entries of all `injectors` lists together.
MaxBinds == 3
\* Calls of >> in the runs that follow the validation step by step.
MaxStepEdges == 3
\* Calls of >> in the runs with a generator held by the caller.
MaxHeldEdges == 2

Layers == 1 .. NumLayers
Injectors == 1 .. NumInjectors
None == 0
NoSize == 0 - 1

\* Outcomes of a call: it returned, or one of these was raised.
Returned == "returned"
InvalidArchitectureError == "InvalidArchitectureError"
RecursionError == "RecursionError"
StopIteration == "StopIteration"
\* The call has not ended yet.
Running == "running"

VARIABLES
    _size,          \* layer -> explicit size, or NoSize
    source_layers,  \* layer -> sequence of layers
    sink_layers,    \* layer -> sequence of layers
    traversing,     \* layer -> BOOLEAN
    injectors,      \* layer -> sequence of injectors
    target_from,    \* injector -> layer or None
    output_from,    \* injector -> layer or None
    call,           \* the last call made and how it ended
    scope,          \* layer -> the layers that share its naming scope
    connectom,      \* the set the last call returned, {} if it returned none
    generator,      \* the frames of the traverse_sink_layer_tree generator
                    \* that exists, outermost first: [layer, i], i the number
                    \* of sink_layers entries the frame's loop has taken
    overlapped      \* history: a >> was validated while the caller held a
                    \* suspended generator with a layer in the subgraph of
                    \* the operands

vars == <<_size, source_layers, sink_layers, traversing, injectors,
          target_from, output_from, call, scope, connectom, generator,
          overlapped>>

\* ----------------------------------------------- traverse_sink_layer_tree
\* list(self.traverse_sink_layer_tree()) run to its end: the generator is
\* consumed depth first.  The result is whether InvalidArchitectureError was
\* raised, and the traversing flags the run leaves behind: a raise unwinds
\* the suspended generator frames without running `self.traversing = False`.
RECURSIVE traverse_sink_layer_tree(_, _, _)
RECURSIVE traverse_targets(_, _, _, _)

traverse_targets(targets, i, flags, sinks) ==
    IF i > Len(targets)
    THEN [raised |-> FALSE, traversing |-> flags]
    ELSE LET r == traverse_sink_layer_tree(targets[i], flags, sinks)
         IN  IF r.raised
             THEN r
             ELSE traverse_targets(targets, i + 1, r.traversing, sinks)

\* The traversal without `self.traversing = False` after the loop.
traverse_without_reset(self, flags, sinks) ==
    IF flags[self]
    THEN [raised |-> TRUE, traversing |-> flags]
    ELSE traverse_targets(sinks[self], 1, [flags EXCEPT ![self] = TRUE], sinks)

traverse_sink_layer_tree(self, flags, sinks) ==
    IF flags[self]
    THEN [raised |-> TRUE, traversing |-> flags]
    ELSE LET r == traverse_targets(sinks[self], 1,
                                   [flags EXCEPT ![self] = TRUE], sinks)
         IN  IF r.raised
             THEN r
             ELSE [raised |-> FALSE,
                   traversing |-> [r.traversing EXCEPT ![self] = FALSE]]

assert_no_cycles(self, flags, sinks) ==
    traverse_sink_layer_tree(self, flags, sinks)

\* ------------------------------------------------------------ __rshift__
\* UniquelyNamed.merge_scopes: the two scopes become one, the union of both;
\* every layer of either scope is in it afterwards.
merge_scopes(self, other, scopes) ==
    LET merged == scopes[self] \cup scopes[other]
    IN  [l \in Layers |-> IF l \in merged THEN merged ELSE scopes[l]]

RECURSIVE TotalLen(_, _)
TotalLen(lists, l) ==
    IF l = 0 THEN 0 ELSE Len(lists[l]) + TotalLen(lists, l - 1)

TotalEdges == TotalLen(sink_layers, NumLayers)

\* rshift with the validation run before the two appends.
rshift_validate_first(self, other) ==
    LET r == assert_no_cycles(self, traversing, sink_layers)
    IN  /\ sink_layers' = [sink_layers EXCEPT ![self] = Append(@, other)]
        /\ source_layers' = [source_layers EXCEPT ![other] = Append(@, self)]
        /\ traversing' = r.traversing
        /\ call' = [op |-> "rshift", self |-> self, other |-> other,
                    outcome |-> IF r.raised THEN InvalidArchitectureError
                                ELSE Returned,
                    ret |-> IF r.raised THEN None ELSE other]
        /\ scope' = IF r.raised THEN scope
                    ELSE merge_scopes(self, other, scope)
        /\ connectom' = {}
        /\ UNCHANGED <<_size, injectors, target_from, output_from>>

\* rshift with the append to other.source_layers moved after the validation.
rshift_sources_after_check(self, other) ==
    LET sinks1 == [sink_layers EXCEPT ![self] = Append(@, other)]
        r == assert_no_cycles(self, traversing, sinks1)
    IN  /\ sink_layers' = sinks1
        /\ source_layers' = IF r.raised THEN source_layers
                            ELSE [source_layers EXCEPT
                                    ![other] = Append(@, self)]
        /\ traversing' = r.traversing
        /\ call' = [op |-> "rshift", self |-> self, other |-> other,
                    outcome |-> IF r.raised THEN InvalidArchitectureError
                                ELSE Returned,
                    ret |-> IF r.raised THEN None ELSE other]
        /\ scope' = IF r.raised THEN scope
                    ELSE merge_scopes(self, other, scope)
        /\ connectom' = {}
        /\ UNCHANGED <<_size, injectors, target_from, output_from>>

\* rshift returning self instead of other.
rshift_returns_self(self, other) ==
    LET sinks1 == [sink_layers EXCEPT ![self] = Append(@, other)]
        sources1 == [source_layers EXCEPT ![other] = Append(@, self)]
        r == assert_no_cycles(self, traversing, sinks1)
    IN  /\ sink_layers' = sinks1
        /\ source_layers' = sources1
        /\ traversing' = r.traversing
        /\ call' = [op |-> "rshift", self |-> self, other |-> other,
                    outcome |-> IF r.raised THEN InvalidArchitectureError
                                ELSE Returned,
                    ret |-> IF r.raised THEN None ELSE self]
        /\ scope' = IF r.raised THEN scope
                    ELSE merge_scopes(self, other, scope)
        /\ connectom' = {}
        /\ UNCHANGED <<_size, injectors, target_from, output_from>>

\* rshift validating from every layer of the graph, not from self alone.
rshift_validate_all(self, other) ==
    LET sinks1 == [sink_layers EXCEPT ![self] = Append(@, other)]
        sources1 == [source_layers EXCEPT ![other] = Append(@, self)]
        r == assert_no_cycles(self, traversing, sinks1)
        bad == \E l \in Layers :
                   assert_no_cycles(l, traversing, sinks1).raised
    IN  /\ sink_layers' = sinks1
        /\ source_layers' = sources1
        /\ traversing' = r.traversing
        /\ call' = [op |-> "rshift", self |-> self, other |-> other,
                    outcome |-> IF bad THEN InvalidArchitectureError
                                ELSE Returned,
                    ret |-> IF bad THEN None ELSE other]
        /\ scope' = IF bad THEN scope ELSE merge_scopes(self, other, scope)
        /\ connectom' = {}
        /\ UNCHANGED <<_size, injectors, target_from, output_from>>

\* rshift taking its edge back when the validation raises.
rshift_rollback(self, other) ==
    LET sinks1 == [sink_layers EXCEPT ![self] = Append(@, other)]
        sources1 == [source_layers EXCEPT ![other] = Append(@, self)]
        r == assert_no_cycles(self, traversing, sinks1)
    IN  /\ sink_layers' = IF r.raised THEN sink_layers ELSE sinks1
        /\ source_layers' = IF r.raised THEN source_layers ELSE sources1
        /\ traversing' = r.traversing
        /\ call' = [op |-> "rshift", self |-> self, other |-> other,
                    outcome |-> IF r.raised THEN InvalidArchitectureError
                                ELSE Returned,
                    ret |-> IF r.raised THEN None ELSE other]
        /\ scope' = IF r.raised THEN scope ELSE merge_scopes(self, other, scope)
        /\ connectom' = {}
        /\ UNCHANGED <<_size, injectors, target_from, output_from>>

\* rshift without the call of merge_scopes.
rshift_without_merge(self, other) ==
    LET sinks1 == [sink_layers EXCEPT ![self] = Append(@, other)]
        sources1 == [source_layers EXCEPT ![other] = Append(@, self)]
        r == assert_no_cycles(self, traversing, sinks1)
    IN  /\ sink_layers' = sinks1
        /\ source_layers' = sources1
        /\ traversing' = r.traversing
        /\ call' = [op |-> "rshift", self |-> self, other |-> other,
                    outcome |-> IF r.raised THEN InvalidArchitectureError
                                ELSE Returned,
                    ret |-> IF r.raised THEN None ELSE other]
        /\ scope' = scope
        /\ connectom' = {}
        /\ UNCHANGED <<_size, injectors, target_from, output_from>>

\* self >> other for two layers.
rshift(self, other) ==
    LET sinks1 == [sink_layers EXCEPT ![self] = Append(@, other)]
        sources1 == [source_layers EXCEPT ![other] = Append(@, self)]
        r == assert_no_cycles(self, traversing, sinks1)
    IN  /\ sink_layers' = sinks1
        /\ source_layers' = sources1
        /\ traversing' = r.traversing
        /\ call' = [op |-> "rshift", self |-> self, other |-> other,
                    outcome |-> IF r.raised THEN InvalidArchitectureError
                                ELSE Returned,
                    ret |-> IF r.raised THEN None ELSE other]
        /\ scope' = IF r.raised THEN scope
                    ELSE merge_scopes(self, other, scope)
        /\ connectom' = {}
        /\ UNCHANGED <<_size, injectors, target_from, output_from>>

Connect ==
    \E self \in Layers, other \in Layers :
        /\ TotalEdges < MaxEdges
        /\ rshift(self, other)
        /\ UNCHANGED <<generator, overlapped>>

\* a >> b >> c: the left operand is the layer the previous >> returned.
ChainConnect ==
    \E other \in Layers :
        /\ TotalEdges < MaxEdges
        /\ call.op = "rshift"
        /\ call.outcome = Returned
        /\ rshift(call.ret, other)
        /\ UNCHANGED <<generator, overlapped>>

\* ------------------------------------------------------------------ size
\* The property `size`, as the call stack evaluates it.  sum() consumes the
\* generator over source_layers in order and the first exception ends it.
\* A call nested deeper than NumLayers has a layer twice on its stack, all
\* of them without _size: Python recurses until its recursion limit and
\* raises RecursionError there.
RECURSIVE size_at(_, _)
RECURSIVE sum_sizes(_, _, _, _)

sum_sizes(layers, i, acc, depth) ==
    IF i > Len(layers)
    THEN [outcome |-> Returned, value |-> acc]
    ELSE LET r == size_at(layers[i], depth)
         IN  IF r.outcome # Returned
             THEN r
             ELSE sum_sizes(layers, i + 1, acc + r.value, depth)

\* size with `if self._size:` for `if self._size is not None:`.
size_at_truthy(self, depth) ==
    IF depth > NumLayers
    THEN [outcome |-> RecursionError, value |-> 0]
    ELSE IF _size[self] # NoSize /\ _size[self] # 0
    THEN [outcome |-> Returned, value |-> _size[self]]
    ELSE IF source_layers[self] = <<>>
    THEN [outcome |-> InvalidArchitectureError, value |-> self]
    ELSE sum_sizes(source_layers[self], 1, 0, depth + 1)

\* size without the check for empty source_layers: the empty sum, 0.
size_at_empty_sum(self, depth) ==
    IF depth > NumLayers
    THEN [outcome |-> RecursionError, value |-> 0]
    ELSE IF _size[self] # NoSize
    THEN [outcome |-> Returned, value |-> _size[self]]
    ELSE sum_sizes(source_layers[self], 1, 0, depth + 1)

\* A raised InvalidArchitectureError carries the layer it names in `value`.
size_at(self, depth) ==
    IF depth > NumLayers
    THEN [outcome |-> RecursionError, value |-> 0]
    ELSE IF _size[self] # NoSize
    THEN [outcome |-> Returned, value |-> _size[self]]
    ELSE IF source_layers[self] = <<>>
    THEN [outcome |-> InvalidArchitectureError, value |-> self]
    ELSE sum_sizes(source_layers[self], 1, 0, depth + 1)

size(self) == size_at(self, 1)

SizeCall ==
    \E self \in Layers :
        /\ call' = [op |-> "size", self |-> self, other |-> None,
                    outcome |-> size(self).outcome,
                    ret |-> size(self).value]
        /\ UNCHANGED <<scope, connectom, _size, source_layers, sink_layers, traversing,
                       injectors, target_from, output_from>>
        /\ UNCHANGED <<generator, overlapped>>

ConnectForSize ==
    \E self \in Layers, other \in Layers :
        /\ TotalEdges < MaxSizeEdges
        /\ rshift(self, other)
        /\ UNCHANGED <<generator, overlapped>>

\* ------------------------------------------------ collect_connected_layers
set(list) == {list[i] : i \in DOMAIN list}

\* The while loop, from one value of (connectom, new_layers) to the end,
\* following only sink_layers.
RECURSIVE collect_loop_sinks_only(_, _)
collect_loop_sinks_only(found, new_layers) ==
    IF new_layers = {}
    THEN found
    ELSE LET very_new_layers ==
                 UNION {set(sink_layers[l]) : l \in new_layers}
             found1 == found \cup new_layers
         IN  collect_loop_sinks_only(found1, very_new_layers \ found1)

\* The while loop, from one value of (connectom, new_layers) to the end.
RECURSIVE collect_loop(_, _)
collect_loop(found, new_layers) ==
    IF new_layers = {}
    THEN found
    ELSE LET very_new_layers ==
                 UNION {set(sink_layers[l]) \cup set(source_layers[l]) :
                           l \in new_layers}
             found1 == found \cup new_layers
         IN  collect_loop(found1, very_new_layers \ found1)

collect_connected_layers(self) == collect_loop({}, {self})

CollectCall ==
    \E self \in Layers :
        /\ connectom' = collect_connected_layers(self)
        /\ call' = [op |-> "collect", self |-> self, other |-> None,
                    outcome |-> Returned, ret |-> None]
        /\ UNCHANGED <<scope, _size, source_layers, sink_layers, traversing,
                       injectors, target_from, output_from>>
        /\ UNCHANGED <<generator, overlapped>>

\* ------------------------------------- traverse_sink_layer_tree, by steps
\* The first next() of self.traverse_sink_layer_tree(): the body runs up to
\* `yield self`, or raises at the test of self.traversing.
gen_start(self, flags) ==
    IF flags[self]
    THEN [frames |-> <<>>, traversing |-> flags, event |-> "raise",
          value |-> None]
    ELSE [frames |-> <<[layer |-> self, i |-> 0]>>,
          traversing |-> [flags EXCEPT ![self] = TRUE],
          event |-> "yield", value |-> self]

\* gen_step that enters a sink without the test of its traversing flag.
gen_step_unchecked(frames, flags, sinks) ==
    LET d == Len(frames)
        self == frames[d].layer
        i == frames[d].i
    IN  IF i < Len(sinks[self])
        THEN LET target == sinks[self][i + 1]
             IN  [frames |-> Append([frames EXCEPT ![d].i = i + 1],
                                     [layer |-> target, i |-> 0]),
                   traversing |-> [flags EXCEPT ![target] = TRUE],
                   event |-> "yield", value |-> target]
        ELSE [frames |-> SubSeq(frames, 1, d - 1),
              traversing |-> [flags EXCEPT ![self] = FALSE],
              event |-> IF d = 1 THEN "stop" ELSE "pop", value |-> None]

\* gen_step without `self.traversing = False` after the loop.
gen_step_without_reset(frames, flags, sinks) ==
    LET d == Len(frames)
        self == frames[d].layer
        i == frames[d].i
    IN  IF i < Len(sinks[self])
        THEN LET target == sinks[self][i + 1]
             IN  IF flags[target]
                 THEN [frames |-> <<>>, traversing |-> flags,
                       event |-> "raise", value |-> None]
                 ELSE [frames |-> Append([frames EXCEPT ![d].i = i + 1],
                                         [layer |-> target, i |-> 0]),
                       traversing |-> [flags EXCEPT ![target] = TRUE],
                       event |-> "yield", value |-> target]
        ELSE [frames |-> SubSeq(frames, 1, d - 1),
              traversing |-> flags,
              event |-> IF d = 1 THEN "stop" ELSE "pop", value |-> None]

\* One step of the innermost frame of a resumed generator.  Its loop takes
\* the next entry of the live list self.sink_layers and enters that layer's
\* generator, which raises at a set flag (no frame resets its flag then) or
\* sets the flag and yields through all the frames; at the end of the list
\* the frame resets its flag and returns to the loop of the frame below.
gen_step(frames, flags, sinks) ==
    LET d == Len(frames)
        self == frames[d].layer
        i == frames[d].i
    IN  IF i < Len(sinks[self])
        THEN LET target == sinks[self][i + 1]
             IN  IF flags[target]
                 THEN [frames |-> <<>>, traversing |-> flags,
                       event |-> "raise", value |-> None]
                 ELSE [frames |-> Append([frames EXCEPT ![d].i = i + 1],
                                         [layer |-> target, i |-> 0]),
                       traversing |-> [flags EXCEPT ![target] = TRUE],
                       event |-> "yield", value |-> target]
        ELSE [frames |-> SubSeq(frames, 1, d - 1),
              traversing |-> [flags EXCEPT ![self] = FALSE],
              event |-> IF d = 1 THEN "stop" ELSE "pop", value |-> None]

\* next() of a suspended generator: it runs to its next yield, to a raise or
\* to its end.
RECURSIVE gen_next(_, _, _)
gen_next(frames, flags, sinks) ==
    LET r == gen_step(frames, flags, sinks)
    IN  IF r.event = "pop"
        THEN gen_next(r.frames, r.traversing, sinks)
        ELSE r

\* self >> other up to the first next() that list() makes in
\* assert_no_cycles.
StartConnect ==
    \E self \in Layers, other \in Layers :
        LET sinks1 == [sink_layers EXCEPT ![self] = Append(@, other)]
            sources1 == [source_layers EXCEPT ![other] = Append(@, self)]
            r == gen_start(self, traversing)
        IN  /\ call.outcome # Running
            /\ TotalEdges < MaxStepEdges
            /\ sink_layers' = sinks1
            /\ source_layers' = sources1
            /\ generator' = r.frames
            /\ traversing' = r.traversing
            /\ call' = [op |-> "rshift", self |-> self, other |-> other,
                        outcome |-> IF r.event = "raise"
                                    THEN InvalidArchitectureError
                                    ELSE Running,
                        ret |-> None]
            /\ connectom' = {}
            /\ UNCHANGED <<scope, overlapped, _size, injectors, target_from,
                           output_from>>

\* list() goes on consuming the generator; at its end >> merges the scopes
\* and returns other.  No more frames than layers are ever open, and the
\* step is not taken beyond that.
ValidateStep ==
    LET r == gen_step(generator, traversing, sink_layers)
    IN  /\ call.outcome = Running
        /\ Len(generator) <= NumLayers
        /\ generator' = r.frames
        /\ traversing' = r.traversing
        /\ call' = [call EXCEPT
                        !.outcome = CASE r.event = "raise"
                                           -> InvalidArchitectureError
                                      [] r.event = "stop" -> Returned
                                      [] OTHER -> Running,
                        !.ret = IF r.event = "stop" THEN call.other ELSE None]
        /\ scope' = IF r.event = "stop"
                    THEN merge_scopes(call.self, call.other, scope)
                    ELSE scope
        /\ UNCHANGED <<overlapped, connectom, _size, source_layers,
                       sink_layers, injectors, target_from, output_from>>

\* The caller makes g = self.traverse_sink_layer_tree() and takes next(g).
GenStart ==
    \E self \in Layers :
        LET r == gen_start(self, traversing)
        IN  /\ generator = <<>>
            /\ generator' = r.frames
            /\ traversing' = r.traversing
            /\ call' = [op |-> "next", self |-> self, other |-> None,
                        outcome |-> IF r.event = "raise"
                                    THEN InvalidArchitectureError
                                    ELSE Returned,
                        ret |-> r.value]
            /\ UNCHANGED <<scope, overlapped, connectom, _size, source_layers,
                           sink_layers, injectors, target_from, output_from>>

\* The caller takes next(g) of the generator it holds.
GenNext ==
    LET r == gen_next(generator, traversing, sink_layers)
    IN  /\ generator # <<>>
        /\ generator' = r.frames
        /\ traversing' = r.traversing
        /\ call' = [op |-> "next", self |-> generator[1].layer,
                    other |-> None,
                    outcome |-> CASE r.event = "raise"
                                       -> InvalidArchitectureError
                                  [] r.event = "stop" -> StopIteration
                                  [] OTHER -> Returned,
                    ret |-> r.value]
        /\ UNCHANGED <<scope, overlapped, connectom, _size, source_layers,
                       sink_layers, injectors, target_from, output_from>>

\* The layers that self or other reaches along sink_layers, and the two.
Subgraph(self, other) ==
    LET RECURSIVE reach(_)
        reach(S) ==
            LET T == S \cup UNION {set(sink_layers[n]) : n \in S}
            IN  IF T = S THEN S ELSE reach(T)
    IN  reach({self, other})

\* self >> other, made whether or not the caller holds a generator, which is
\* suspended at a yield then.
ConnectHeld ==
    \E self \in Layers, other \in Layers :
        /\ TotalEdges < MaxHeldEdges
        /\ rshift(self, other)
        /\ overlapped' =
              (overlapped \/ \E k \in DOMAIN generator :
                                generator[k].layer \in Subgraph(self, other))
        /\ UNCHANGED generator

\* ------------------------------------------- ConstructionInjector: << and >>
\* __rlshift__ without the check of the prior binding.
rlshift_unchecked(self, other) ==
    /\ output_from' = [output_from EXCEPT ![self] = other]
    /\ injectors' = [injectors EXCEPT ![other] = Append(@, self)]
    /\ call' = [op |-> "rlshift", self |-> self, other |-> other,
                outcome |-> Returned, ret |-> self]
    /\ UNCHANGED <<scope, connectom, _size, source_layers, sink_layers, traversing,
                   target_from>>

\* __rlshift__ without the append to other.injectors.
rlshift_without_append(self, other) ==
    IF ~(output_from[self] = None \/ output_from[self] = other)
    THEN /\ call' = [op |-> "rlshift", self |-> self, other |-> other,
                     outcome |-> InvalidArchitectureError, ret |-> None]
         /\ UNCHANGED <<scope, connectom, _size, source_layers, sink_layers,
                        traversing, injectors, target_from, output_from>>
    ELSE /\ output_from' = [output_from EXCEPT ![self] = other]
         /\ call' = [op |-> "rlshift", self |-> self, other |-> other,
                     outcome |-> Returned, ret |-> self]
         /\ UNCHANGED <<scope, connectom, _size, source_layers, sink_layers,
                        traversing, injectors, target_from>>

\* other << self: ConstructionInjector.__rlshift__.
rlshift(self, other) ==
    IF ~(output_from[self] = None \/ output_from[self] = other)
    THEN /\ call' = [op |-> "rlshift", self |-> self, other |-> other,
                     outcome |-> InvalidArchitectureError, ret |-> None]
         /\ UNCHANGED <<scope, connectom, _size, source_layers, sink_layers, traversing,
                        injectors, target_from, output_from>>
    ELSE /\ output_from' = [output_from EXCEPT ![self] = other]
         /\ injectors' = [injectors EXCEPT ![other] = Append(@, self)]
         /\ call' = [op |-> "rlshift", self |-> self, other |-> other,
                     outcome |-> Returned, ret |-> self]
         /\ UNCHANGED <<scope, connectom, _size, source_layers, sink_layers, traversing,
                        target_from>>

\* __rrshift__ appending to other.injectors, as __rlshift__ does.
rrshift_appending(self, other) ==
    IF ~(target_from[self] = None \/ target_from[self] = other)
    THEN /\ call' = [op |-> "rrshift", self |-> self, other |-> other,
                     outcome |-> InvalidArchitectureError, ret |-> None]
         /\ UNCHANGED <<scope, connectom, _size, source_layers, sink_layers,
                        traversing, injectors, target_from, output_from>>
    ELSE /\ target_from' = [target_from EXCEPT ![self] = other]
         /\ injectors' = [injectors EXCEPT ![other] = Append(@, self)]
         /\ call' = [op |-> "rrshift", self |-> self, other |-> other,
                     outcome |-> Returned, ret |-> self]
         /\ UNCHANGED <<scope, connectom, _size, source_layers, sink_layers,
                        traversing, output_from>>

\* other >> self for an injector self: ConstructionLayer.__rshift__ returns
\* NotImplemented and Python calls ConstructionInjector.__rrshift__.
rrshift(self, other) ==
    IF ~(target_from[self] = None \/ target_from[self] = other)
    THEN /\ call' = [op |-> "rrshift", self |-> self, other |-> other,
                     outcome |-> InvalidArchitectureError, ret |-> None]
         /\ UNCHANGED <<scope, connectom, _size, source_layers, sink_layers, traversing,
                        injectors, target_from, output_from>>
    ELSE /\ target_from' = [target_from EXCEPT ![self] = other]
         /\ call' = [op |-> "rrshift", self |-> self, other |-> other,
                     outcome |-> Returned, ret |-> self]
         /\ UNCHANGED <<scope, connectom, _size, source_layers, sink_layers, traversing,
                        injectors, output_from>>

TotalBinds == TotalLen(injectors, NumLayers)

\* A call that would append is made only while the lists are short.
BindOutput ==
    \E self \in Injectors, other \in Layers :
        /\ \/ TotalBinds < MaxBinds
           \/ ~(output_from[self] = None \/ output_from[self] = other)
        /\ rlshift(self, other)
        /\ UNCHANGED <<generator, overlapped>>

BindTarget ==
    \E self \in Injectors, other \in Layers :
        /\ rrshift(self, other)
        /\ UNCHANGED <<generator, overlapped>>

\* ------------------------------------------------------------------ Init
NoCall == [op |-> "none", self |-> None, other |-> None,
           outcome |-> Returned, ret |-> None]

\* The size argument layer l is constructed with, when it is given one.
SizeArg(l) == CASE l % 5 = 1 -> 3
                [] l % 5 = 2 -> 4
                [] l % 5 = 3 -> 0
                [] l % 5 = 4 -> 5
                [] OTHER -> 7

NoEdges ==
    /\ source_layers = [l \in Layers |-> <<>>]
    /\ sink_layers = [l \in Layers |-> <<>>]
    /\ traversing = [l \in Layers |-> FALSE]
    /\ injectors = [l \in Layers |-> <<>>]
    /\ output_from = [i \in Injectors |-> None]
    /\ call = NoCall
    /\ scope = [l \in Layers |-> {l}]
    /\ connectom = {}
    /\ generator = <<>>
    /\ overlapped = FALSE

\* Layers constructed without size, injectors without target_from.
Init ==
    /\ NoEdges
    /\ _size = [l \in Layers |-> NoSize]
    /\ target_from = [i \in Injectors |-> None]

\* Layers constructed with or without a size.
InitSize ==
    /\ NoEdges
    /\ _size \in [Layers -> {NoSize} \cup {SizeArg(l) : l \in Layers}]
    /\ \A l \in Layers : _size[l] \in {NoSize, SizeArg(l)}
    /\ target_from = [i \in Injectors |-> None]

\* Injectors constructed with or without target_from.
InitInjector ==
    /\ NoEdges
    /\ _size = [l \in Layers |-> NoSize]
    /\ target_from \in [Injectors -> Layers \cup {None}]

\* Injectors constructed with or without target_from, after layer 1 >> layer 2
\* has returned.
InitWired ==
    /\ _size = [l \in Layers |-> NoSize]
    /\ sink_layers = [l \in Layers |-> IF l = 1 THEN <<2>> ELSE <<>>]
    /\ source_layers = [l \in Layers |-> IF l = 2 THEN <<1>> ELSE <<>>]
    /\ traversing = [l \in Layers |-> FALSE]
    /\ scope = merge_scopes(1, 2, [l \in Layers |-> {l}])
    /\ call = [op |-> "rshift", self |-> 1, other |-> 2,
               outcome |-> Returned, ret |-> 2]
    /\ connectom = {}
    /\ generator = <<>>
    /\ overlapped = FALSE
    /\ injectors = [l \in Layers |-> <<>>]
    /\ output_from = [i \in Injectors |-> None]
    /\ target_from \in [Injectors -> Layers \cup {None}]

Next == Connect \/ ChainConnect

NextSize == ConnectForSize \/ SizeCall

NextInjector == BindOutput \/ BindTarget

NextComponent == Connect \/ CollectCall

Spec == Init /\ [][Next]_vars

SpecSize == InitSize /\ [][NextSize]_vars

SpecInjector == InitInjector /\ [][NextInjector]_vars

SpecComponent == Init /\ [][NextComponent]_vars

SpecWired == InitWired /\ [][NextInjector]_vars

NextStepwise == StartConnect \/ ValidateStep

\* list() resumes the generator until it ends.
SpecStepwise == Init /\ [][NextStepwise]_vars /\ WF_vars(ValidateStep)

NextHeld == ConnectHeld \/ GenStart \/ GenNext

SpecHeld == Init /\ [][NextHeld]_vars

\* ============================================================== properties
\* The sinks graph: successors, descendants, paths, cycles.
Succ(n) == {sink_layers[n][i] : i \in DOMAIN sink_layers[n]}

RECURSIVE Closure(_)
Closure(S) ==
    LET T == S \cup UNION {Succ(x) : x \in S}
    IN  IF T = S THEN S ELSE Closure(T)

\* A directed sinks-path from a to b, the empty path included.
Path(a, b) == b \in Closure({a})

OnCycle(n) == \E m \in Succ(n) : Path(m, n)

Acyclic == \A n \in Layers : ~OnCycle(n)

\* No cycle can be reached from a layer of S.
NoCycleBelow(S) == \A n \in Closure(S) : ~OnCycle(n)

Count(seq, x) == Cardinality({i \in DOMAIN seq : seq[i] = x})

Elems(seq) == {seq[i] : i \in DOMAIN seq}

\* This step is the call  op(self, other).
IsCall(op, self, other) ==
    /\ call'.op = op
    /\ call'.self = self
    /\ call'.other = other

Installed(a, b) ==
    /\ b \in Elems(sink_layers[a])
    /\ a \in Elems(source_layers[b])

\* C1 as stated: in every reachable state, a >> b with no sinks-path from b
\* to a returns without InvalidArchitectureError and installs the edge.
C1_Original ==
    [][\A a, b \in Layers :
          (IsCall("rshift", a, b) /\ ~Path(b, a))
              => (call'.outcome = Returned /\ Installed(a, b)')]_vars

\* C1 amended: in every reachable state, a >> b with no sinks-path from b to
\* a, and with no cycle (left by an earlier failed >>) reachable from a or
\* from b, returns without InvalidArchitectureError, and afterwards b is in
\* a.sink_layers and a is in b.source_layers.
C1_ConnectSucceeds ==
    [][\A a, b \in Layers :
          (IsCall("rshift", a, b) /\ ~Path(b, a) /\ NoCycleBelow({a, b}))
              => (call'.outcome = Returned /\ Installed(a, b)')]_vars

\* A >> that returned in a graph where an earlier >> has failed.
C1_Witness ==
    /\ call.op = "rshift"
    /\ call.outcome = Returned
    /\ Installed(call.self, call.other)
    /\ ~Acyclic

\* C2: a >> b with a sinks-path from b to a (a = b included) raises
\* InvalidArchitectureError.
C2_CycleRejected ==
    [][\A a, b \in Layers :
          (IsCall("rshift", a, b) /\ Path(b, a))
              => call'.outcome = InvalidArchitectureError]_vars

\* A failed >> that closed a cycle through two or more layers.
C2_Witness ==
    /\ call.op = "rshift"
    /\ call.outcome = InvalidArchitectureError
    /\ call.self # call.other
    /\ Path(call.other, call.self)
    /\ \A n \in Layers : n \notin Succ(n)

\* C3 as stated: whenever >> has returned, the sinks graph over all layers
\* is acyclic, also when an earlier >> has reported a cycle.
C3_Original ==
    (call.op = "rshift" /\ call.outcome = Returned) => Acyclic

\* C3 amended: a >> that returns has added no cycle: after a >> b returns,
\* no cycle is reachable from a, and if the graph was acyclic before the
\* call it is acyclic after it (so the whole graph is acyclic as long as no
\* >> has reported a cycle).
C3_NoCycleAdded ==
    [][\A a, b \in Layers :
          (IsCall("rshift", a, b) /\ call'.outcome = Returned)
              => /\ NoCycleBelow({a})'
                 /\ Acyclic => Acyclic']_vars

\* A >> that returned on top of an earlier edge of its source or sink.
C3_Witness ==
    /\ call.op = "rshift"
    /\ call.outcome = Returned
    /\ Acyclic
    /\ \E n \in Layers : sink_layers[n] # <<>> /\ source_layers[n] # <<>>

\* C4: between two operations, whether the last >> returned or raised, no
\* layer has its traversing flag set.
C4_FlagsReset == \A n \in Layers : ~traversing[n]

\* C5: b occurs in a.sink_layers exactly as often as a occurs in
\* b.source_layers, in every reachable state.
C5_Mutual ==
    \A a, b \in Layers :
        Count(sink_layers[a], b) = Count(source_layers[b], a)

\* A failed >> has left its edge, and some pair is connected twice.
C5_Witness ==
    /\ call.outcome = InvalidArchitectureError
    /\ \E a, b \in Layers : Count(sink_layers[a], b) = 2

\* Only a.sink_layers and b.source_layers change, by one appended entry.
OneEdgeAdded(a, b) ==
    /\ sink_layers' = [sink_layers EXCEPT ![a] = Append(@, b)]
    /\ source_layers' = [source_layers EXCEPT ![b] = Append(@, a)]

\* a >> b has returned b, on layers a, b, c that were fresh before it.
AfterFirstOfChain(a, b, c) ==
    /\ call.op = "rshift" /\ call.self = a /\ call.other = b
    /\ call.outcome = Returned /\ call.ret = b
    /\ sink_layers[a] = <<b>> /\ source_layers[a] = <<>>
    /\ sink_layers[b] = <<>> /\ source_layers[b] = <<a>>
    /\ sink_layers[c] = <<>> /\ source_layers[c] = <<>>

\* C6: a >> b that returns returns b and adds exactly the edge a -> b, no
\* other adjacency list changes; (a >> b) >> c on fresh a, b, c leaves b in
\* a.sink_layers and c in b.sink_layers, and a and c unconnected.
C6_ReturnsSink ==
    [][/\ \A a, b \in Layers :
            (IsCall("rshift", a, b) /\ call'.outcome = Returned)
                => (call'.ret = b /\ OneEdgeAdded(a, b))
       /\ \A a, b, c \in Layers :
            (/\ Cardinality({a, b, c}) = 3
             /\ AfterFirstOfChain(a, b, c)
             /\ IsCall("rshift", call.ret, c))
                => /\ call'.outcome = Returned
                   /\ b \in Elems(sink_layers'[a])
                   /\ c \in Elems(sink_layers'[b])
                   /\ c \notin Elems(sink_layers'[a])
                   /\ a \notin Elems(source_layers'[c])]_vars

\* (a >> b) >> c has returned c.
C6_Witness ==
    \E a, b, c \in Layers :
        /\ Cardinality({a, b, c}) = 3
        /\ call = [op |-> "rshift", self |-> b, other |-> c,
                   outcome |-> Returned, ret |-> c]
        /\ sink_layers[a] = <<b>> /\ sink_layers[b] = <<c>>
        /\ source_layers[c] = <<b>> /\ sink_layers[c] = <<>>

\* ------------------------------------------------------------- size claims
\* The sum of the values of a sequence of size results.
RECURSIVE SumValues(_, _)
SumValues(layers, i) ==
    IF i = 0 THEN 0 ELSE size(layers[i]).value + SumValues(layers, i - 1)

AllReturn(layers) ==
    \A i \in DOMAIN layers : size(layers[i]).outcome = Returned

\* What the size rule gives for layer n, from the sizes of its sources.
SizeRule(n) ==
    IF _size[n] # NoSize
    THEN size(n) = [outcome |-> Returned, value |-> _size[n]]
    ELSE source_layers[n] # <<>> =>
           IF AllReturn(source_layers[n])
           THEN size(n) = [outcome |-> Returned,
                           value |-> SumValues(source_layers[n],
                                               Len(source_layers[n]))]
           ELSE size(n).outcome # Returned

\* C7: on an acyclic graph, size of a layer is its explicit size when it has
\* one (0 included, whatever its sources are); otherwise, with sources, it
\* is the sum of the sizes of the entries of source_layers; and the size
\* call reports exactly that.
C7_SizeInference ==
    Acyclic =>
        /\ \A n \in Layers : SizeRule(n)
        /\ call.op = "size" =>
             /\ call.outcome = size(call.self).outcome
             /\ call.outcome = Returned => call.ret = size(call.self).value
             /\ _size[call.self] # NoSize =>
                  (call.outcome = Returned /\ call.ret = _size[call.self])

\* size was asked of a layer without explicit size whose two sources have
\* sizes 3 and 4, and it reported 7.
C7_Witness ==
    /\ Acyclic
    /\ call.op = "size" /\ call.outcome = Returned /\ call.ret = 7
    /\ _size[call.self] = NoSize
    /\ Len(source_layers[call.self]) = 2
    /\ {_size[l] : l \in Elems(source_layers[call.self])} = {3, 4}

Indeterminate(n) == _size[n] = NoSize /\ source_layers[n] = <<>>

\* This step leaves every field of every layer and injector as it was.
NothingModified ==
    UNCHANGED <<scope, connectom, _size, source_layers, sink_layers, traversing, injectors,
                target_from, output_from>>

\* C8 as stated: size of a layer with neither explicit size nor sources
\* raises InvalidArchitectureError, and so does size of every layer without
\* explicit size that has such a failing layer among its sources.
C8_Original ==
    /\ \A n \in Layers :
         Indeterminate(n) => size(n).outcome = InvalidArchitectureError
    /\ \A d, n \in Layers :
         (/\ _size[d] = NoSize
          /\ n \in Elems(source_layers[d])
          /\ size(n).outcome = InvalidArchitectureError)
             => size(d).outcome = InvalidArchitectureError

\* C8 amended: size of a layer with neither explicit size nor sources
\* raises InvalidArchitectureError; a layer without explicit size that sums
\* over a failing source never returns a number: on an acyclic graph it
\* raises the same InvalidArchitectureError, raised at a layer with neither
\* size nor sources, and where a failed >> has left a cycle it may raise
\* RecursionError instead; the size call modifies no layer or injector.
C8_SizeFailure ==
    /\ [](\A n \in Layers :
            Indeterminate(n) =>
                size(n) = [outcome |-> InvalidArchitectureError,
                           value |-> n])
    /\ [](\A d, n \in Layers :
            (/\ _size[d] = NoSize
             /\ n \in Elems(source_layers[d])
             /\ size(n).outcome = InvalidArchitectureError)
                => /\ size(d).outcome # Returned
                   /\ Acyclic =>
                        /\ size(d).outcome = InvalidArchitectureError
                        /\ Indeterminate(size(d).value))
    /\ [][call'.op = "size" /\ call' # call =>
            /\ NothingModified
            /\ call'.outcome = size(call'.self).outcome]_vars

\* size was asked of a layer without size that has a source, and it raised
\* the InvalidArchitectureError of that source.
C8_Witness ==
    /\ Acyclic
    /\ call.op = "size" /\ call.outcome = InvalidArchitectureError
    /\ source_layers[call.self] # <<>>
    /\ \E n \in Elems(source_layers[call.self]) : Indeterminate(n)

\* --------------------------------------------------------- injector claims
\* C9: other << inj with inj.output_from already other, and other >> inj
\* with inj.target_from already other, raise nothing and change nothing,
\* other.injectors included.
C9_Idempotent ==
    [][\A i \in Injectors, n \in Layers :
          /\ (IsCall("rlshift", i, n) /\ output_from[i] = n)
                => (call'.outcome = Returned /\ NothingModified)
          /\ (IsCall("rrshift", i, n) /\ target_from[i] = n)
                => (call'.outcome = Returned /\ NothingModified)]_vars

\* An injector was bound twice to the output of the same layer.
C9_Witness ==
    /\ call.op = "rlshift" /\ call.outcome = Returned
    /\ Count(injectors[call.other], call.self) = 2

\* C10: once output_from (target_from, also one given to the constructor)
\* refers to a layer, << (>>) with another layer raises
\* InvalidArchitectureError and changes no reference and no injectors list;
\* a reference that is set never changes.
C10_SingleAssignment ==
    [][/\ \A i \in Injectors, n \in Layers :
            /\ (IsCall("rlshift", i, n) /\ output_from[i] \notin {None, n})
                  => /\ call'.outcome = InvalidArchitectureError
                     /\ NothingModified
            /\ (IsCall("rrshift", i, n) /\ target_from[i] \notin {None, n})
                  => /\ call'.outcome = InvalidArchitectureError
                     /\ NothingModified
       /\ \A i \in Injectors :
            /\ output_from[i] # None => output_from'[i] = output_from[i]
            /\ target_from[i] # None => target_from'[i] = target_from[i]]_vars

\* << with a second layer was refused for an injector whose output_from
\* and target_from are both set, and the second layer lists no injector.
C10_Witness ==
    /\ call.op = "rlshift"
    /\ call.outcome = InvalidArchitectureError
    /\ output_from[call.self] \notin {None, call.other}
    /\ target_from[call.self] # None
    /\ injectors[call.other] = <<>>

\* -------------------------------------------------------- component claims
\* Layers joined by an edge, in either direction.
Adjacent(a, b) == b \in Succ(a) \/ a \in Succ(b)

\* The layers an undirected path leads to from a layer of S.
RECURSIVE UndirectedClosure(_)
UndirectedClosure(S) ==
    LET T == S \cup {m \in Layers : \E x \in S : Adjacent(x, m)}
    IN  IF T = S THEN S ELSE UndirectedClosure(T)

\* C11: collect_connected_layers of a layer n is exactly the set of layers
\* that paths along edges in either direction reach from n, n included; it
\* is the same set for every member of that set; the call returns it.
C11_ConnectedComponent ==
    /\ \A n \in Layers :
         /\ collect_connected_layers(n) = UndirectedClosure({n})
         /\ \A m \in collect_connected_layers(n) :
              collect_connected_layers(m) = collect_connected_layers(n)
    /\ call.op = "collect" => connectom = UndirectedClosure({call.self})

\* The call on a layer without sinks returned a set of three layers: it had
\* to follow source_layers, and a sink of one of those sources.
C11_Witness ==
    /\ call.op = "collect"
    /\ sink_layers[call.self] = <<>>
    /\ Cardinality(connectom) = 3
    /\ \E m \in connectom : ~Path(m, call.self) /\ ~Path(call.self, m)

\* ------------------------------------------- claims on failed >> and scopes
\* No layer connected to c or d, in either direction, lies on a cycle.
Unrelated(c, d) == \A n \in UndirectedClosure({c, d}) : ~OnCycle(n)

\* C12: once a >> has reported a cycle (its cycle is in the graph), c >> d
\* on layers that are not connected to any layer of a cycle, with no path
\* from d to c, returns and installs the edge c -> d.
C12_IndependentConnect ==
    [][\A c, d \in Layers :
          (/\ IsCall("rshift", c, d)
           /\ ~Acyclic
           /\ Unrelated(c, d)
           /\ ~Path(d, c))
              => (call'.outcome = Returned /\ Installed(c, d)')]_vars

\* A >> returned while the flag and the cycle of a failed >> are still there
\* on a layer that is not connected to its two layers.
C12_Witness ==
    /\ call.op = "rshift" /\ call.outcome = Returned
    /\ call.self # call.other
    /\ \E n \in Layers \ UndirectedClosure({call.self}) :
          traversing[n] /\ OnCycle(n)

\* C13: a >> b that reports a cycle leaves b in a.sink_layers and a in
\* b.source_layers, changes no other adjacency list, and has not merged the
\* scopes.
C13_NonTransactional ==
    [][\A a, b \in Layers :
          (IsCall("rshift", a, b)
           /\ call'.outcome = InvalidArchitectureError)
              => /\ OneEdgeAdded(a, b)
                 /\ Installed(a, b)'
                 /\ scope' = scope]_vars

\* A failed >> between two layers of different scopes: the edge is there,
\* the scopes are still two.
C13_Witness ==
    /\ call.op = "rshift" /\ call.outcome = InvalidArchitectureError
    /\ Installed(call.self, call.other)
    /\ scope[call.self] # scope[call.other]

\* C14 as stated: in every reachable state two layers joined by an edge are
\* in the same scope.
C14_Original ==
    \A a \in Layers : \A b \in Succ(a) : scope[a] = scope[b]

\* C14 amended: a >> b that returns leaves a and b in one scope and takes
\* no layer out of a scope, so every edge a successful >> installed joins
\* layers of one scope; as long as no >> has reported a cycle (the graph is
\* acyclic) the scope of a layer is its connected component.
C14_ScopesMerged ==
    /\ [][\A a, b \in Layers :
            (IsCall("rshift", a, b) /\ call'.outcome = Returned)
                => /\ scope'[a] = scope'[b]
                   /\ \A n \in Layers : scope[n] \subseteq scope'[n]]_vars
    /\ [](Acyclic => \A n \in Layers : scope[n] = UndirectedClosure({n}))

\* Two >> have returned and all three layers are in one scope.
C14_Witness ==
    /\ call.op = "rshift" /\ call.outcome = Returned
    /\ Acyclic
    /\ Cardinality(scope[call.self]) = 3

\* ----------------------------------------------------- binding frame claims
\* C17: other >> inj that returns sets inj.target_from to other and changes
\* nothing else: not other.injectors, not inj.output_from, no source_layers
\* or sink_layers; other << inj on an injector without output_from returns,
\* sets inj.output_from to other, appends inj to other.injectors, and leaves
\* inj.target_from and all source_layers and sink_layers as they were.
C17_BindFrame ==
    [][\A i \in Injectors, n \in Layers :
          /\ (IsCall("rrshift", i, n) /\ call'.outcome = Returned)
                => /\ target_from' = [target_from EXCEPT ![i] = n]
                   /\ UNCHANGED <<injectors, output_from, source_layers,
                                  sink_layers, traversing, scope, _size>>
          /\ (IsCall("rlshift", i, n) /\ output_from[i] = None)
                => /\ call'.outcome = Returned
                   /\ output_from' = [output_from EXCEPT ![i] = n]
                   /\ injectors' = [injectors EXCEPT ![n] = Append(@, i)]
                   /\ UNCHANGED <<target_from, source_layers, sink_layers,
                                  traversing, scope, _size>>]_vars

\* >> has bound the target side of an injector whose output side is bound to
\* another layer; the layers 1 and 2 are wired.
C17_Witness ==
    /\ call.op = "rrshift" /\ call.outcome = Returned
    /\ target_from[call.self] = call.other
    /\ output_from[call.self] \notin {None, call.other}
    /\ injectors[call.other] = <<>>
    /\ sink_layers[1] = <<2>>

\* C19: an injector is in n.injectors exactly when its output_from is n; so
\* it is listed on one layer at most, and never on account of its
\* target_from.
C19_ListedWhereOutput ==
    \A i \in Injectors :
        /\ \A n \in Layers : (i \in set(injectors[n])) <=> (output_from[i] = n)
        /\ Cardinality({n \in Layers : i \in set(injectors[n])}) <= 1

\* Output and target side of an injector are bound to different layers and
\* only the layer of the output side lists it.
C19_Witness ==
    \E i \in Injectors :
        /\ output_from[i] # None
        /\ target_from[i] \notin {None, output_from[i]}
        /\ i \in set(injectors[output_from[i]])
        /\ injectors[target_from[i]] = <<>>
        /\ call.op = "rrshift" /\ call.outcome = Returned

\* ------------------------------------------------ flags against a fresh set
\* The validation with a set of the layers on the stack, made for the call:
\* whether it finds a layer that is on its stack already.
RECURSIVE FreshSetRaises(_, _, _)
FreshSetRaises(n, onstack, sinks) ==
    \/ n \in onstack
    \/ \E i \in DOMAIN sinks[n] :
          FreshSetRaises(sinks[n][i], onstack \cup {n}, sinks)

\* C18: every >> made one at a time raises exactly when the validation with
\* a fresh on-stack set would raise on the same graph; between operations
\* every layer whose traversing flag is still set reaches a cycle.
C18_AsFreshSet ==
    /\ [][\A a, b \in Layers :
            IsCall("rshift", a, b)
                => ((call'.outcome = InvalidArchitectureError)
                      <=> FreshSetRaises(a, {}, sink_layers'))]_vars
    /\ [](\A n \in Layers : traversing[n] => ~NoCycleBelow({n}))

\* A >> was rejected whose sink did not reach its source: the traversal ran
\* into a layer an earlier failed >> had left flagged.
C18_Witness ==
    /\ call.op = "rshift" /\ call.outcome = InvalidArchitectureError
    /\ \E n \in Layers :
          /\ n \in Succ(call.other)
          /\ n # call.self
          /\ traversing[n]
          /\ ~Path(n, call.self)

\* ------------------------------------------------ the traversal, by steps
\* C15: the traversal that >> starts always ends, by the end of the
\* generator or by InvalidArchitectureError, whatever cycles earlier failed
\* >> have left and whatever edges are doubled; it never has more frames
\* open than there are layers.
C15_Terminates ==
    /\ (call.outcome = Running) ~> (call.outcome # Running)
    /\ [](Len(generator) <= NumLayers)
    /\ [](call.outcome # Running
            => /\ generator = <<>>
               /\ call.outcome \in {Returned, InvalidArchitectureError})

\* A traversal has ended over a doubled edge of its source while another
\* layer is on a cycle that a failed >> left.
C15_Witness ==
    /\ call.op = "rshift" /\ call.outcome = Returned
    /\ Count(sink_layers[call.self], call.other) >= 2
    /\ \E n \in Layers : OnCycle(n) /\ traversing[n]

\* C16: a >> validated while the caller holds a suspended generator over
\* the same subgraph can raise although no layer is on a cycle; a >> raises
\* on a graph without cycle only after such an overlap has happened, never
\* in runs where every traversal has ended before the next >>.
C16_SpuriousOnlyOverlapped ==
    (/\ call.op = "rshift"
     /\ call.outcome = InvalidArchitectureError
     /\ Acyclic) => overlapped

\* A >> has raised on a graph without cycle while a generator is suspended.
C16_Witness ==
    /\ call.op = "rshift"
    /\ call.outcome = InvalidArchitectureError
    /\ Acyclic
    /\ generator # <<>>
====
